---------------------------- MODULE Spec2Model ----------------------------
(***************************************************************************)
(* A model of tomwwright/dynamodb-repository-pattern:                       *)
(*   - src/lib/expressions.ts : the key/filter condition compiler          *)
(*   - src/lib/repository.ts  : Repository.put / get / scan / query        *)
(* together with the two collaborators the repository is handed: a zod     *)
(* schema (the schemas of src/examples/repository.test.ts) and a DynamoDB  *)
(* table with hash key pk and range key sk.                                *)
(***************************************************************************)
EXTENDS Integers, Sequences, FiniteSets, TLC

VARIABLES
    exprIn,     \* the argument handed to the condition compiler
    exprOut,    \* what the compiler returned for it
    schema,     \* Repository.schema   (constructor argument, readonly)
    pageSize,   \* how many items the table evaluates per page
    store,      \* the table's items, at most one per (pk, sk)
    call,       \* per caller: the repository operation it has in progress
    lastPut,    \* per key: what the last put applied to that key returned
    putsStarted  \* puts started so far

vars == <<exprIn, exprOut, schema, pageSize, store, call, lastPut, putsStarted>>

(***************************************************************************)
(* JavaScript values.  Every value carries its runtime type; the token of  *)
(* a number is its decimal text, so that the string "3" and the number 3   *)
(* are different values.                                                   *)
(***************************************************************************)
Str(s)  == [type |-> "string",  val |-> s]
Num(n)  == [type |-> "number",  val |-> n]
Bool(b) == [type |-> "boolean", val |-> b]
Arr(es) == [type |-> "array", elems |-> es]
Undefined == [type |-> "undefined", val |-> "undefined"]

\* expr[i] (zero based): undefined past the end of an array
ElemAt(expr, i) ==
    IF expr.type = "array" /\ i + 1 <= Len(expr.elems) THEN expr.elems[i + 1] ELSE Undefined

\* `${v}` in a template literal
TemplateString(v) == v.val

----------------------------------------------------------------------------
(***************************************************************************)
(* src/lib/expressions.ts                                                  *)
(*                                                                         *)
(* A Record<string, Expression> is modelled by its Object.entries(): a     *)
(* sequence of [name, expr] with pairwise distinct names.  A returned      *)
(* values object is a set of [name, value] bindings, one per name.         *)
(***************************************************************************)
OperatorOf(expr) == IF expr.type = "array" THEN ElemAt(expr, 0) ELSE Str("=")

Bind(name, value) == [name |-> name, value |-> value]

\* { ...values, ...current }
Spread(values, current) ==
    {b \in values : \A c \in current : c.name # b.name} \cup current

\* as toExpression, with begins_with written like a comparison
toExpressionInfix(key, expr) ==
    LET operator == OperatorOf(expr) IN
    CASE operator = Str("between") ->
            key \o " between :" \o key \o "min and :" \o key \o "max"
      [] OTHER ->
            key \o " " \o TemplateString(operator) \o " :" \o key

\* as toExpression, without the begins_with case
toExpressionNoBeginsWith(key, expr) ==
    LET operator == OperatorOf(expr) IN
    CASE operator = Str("between") ->
            key \o " between :" \o key \o "min and :" \o key \o "max"
      [] operator = Str("begins_with") ->
            key \o " = :" \o key
      [] OTHER ->
            key \o " " \o TemplateString(operator) \o " :" \o key

toExpression(key, expr) ==
    LET operator == OperatorOf(expr) IN
    CASE operator = Str("between") ->
            key \o " between :" \o key \o "min and :" \o key \o "max"
      [] operator = Str("begins_with") ->
            "begins_with(" \o key \o ", :" \o key \o ")"
      [] OTHER ->
            key \o " " \o TemplateString(operator) \o " :" \o key

\* as toExpressionValue, with expr[1] bound to both ends of a between
toExpressionValueOneBound(key, expr) ==
    LET operator == OperatorOf(expr)
        value    == IF expr.type = "array" THEN ElemAt(expr, 1) ELSE expr
    IN  CASE operator = Str("between") ->
                Spread({Bind(":" \o key \o "min", ElemAt(expr, 1))},
                       {Bind(":" \o key \o "max", ElemAt(expr, 1))})
          [] OTHER ->
                {Bind(":" \o key, value)}

\* as toExpressionValue, with the whole expression bound in the default case
toExpressionValueWhole(key, expr) ==
    LET operator == OperatorOf(expr) IN
    CASE operator = Str("between") ->
            Spread({Bind(":" \o key \o "min", ElemAt(expr, 1))},
                   {Bind(":" \o key \o "max", ElemAt(expr, 2))})
      [] OTHER ->
            {Bind(":" \o key, expr)}

toExpressionValue(key, expr) ==
    LET operator == OperatorOf(expr)
        value    == IF expr.type = "array" THEN ElemAt(expr, 1) ELSE expr
    IN  CASE operator = Str("between") ->
                Spread({Bind(":" \o key \o "min", ElemAt(expr, 1))},
                       {Bind(":" \o key \o "max", ElemAt(expr, 2))})
          [] OTHER ->
                {Bind(":" \o key, value)}

RECURSIVE ReduceValues(_)
ReduceValues(entries) ==
    IF entries = <<>> THEN {}
    ELSE LET n == Len(entries) IN
         Spread(ReduceValues(SubSeq(entries, 1, n - 1)),
                toExpressionValue(entries[n].name, entries[n].expr))

\* as JoinAnd, with Array.join's default separator
RECURSIVE JoinComma(_)
JoinComma(clauses) ==
    IF clauses = <<>> THEN ""
    ELSE IF Len(clauses) = 1 THEN clauses[1]
    ELSE clauses[1] \o "," \o JoinComma(Tail(clauses))

RECURSIVE JoinAnd(_)
JoinAnd(clauses) ==
    IF clauses = <<>> THEN ""
    ELSE IF Len(clauses) = 1 THEN clauses[1]
    ELSE clauses[1] \o " and " \o JoinAnd(Tail(clauses))

toKeyConditionExpression(keys) ==
    [values     |-> ReduceValues(keys),
     expression |-> Str(JoinAnd([i \in 1..Len(keys) |->
                                   toExpression(keys[i].name, keys[i].expr)]))]

\* an optional argument: given, or left out (undefined)
Given(v) == [present |-> TRUE, value |-> v]
Absent == [present |-> FALSE, value |-> <<>>]

\* as toFilterConditionExpression, with `filter ?? {}` instead of the early return
toFilterConditionExpressionDefaulted(filter) ==
    toKeyConditionExpression(IF filter.present THEN filter.value ELSE <<>>)

toFilterConditionExpression(filter) ==
    IF ~filter.present
    THEN [values |-> {}, expression |-> Undefined]
    ELSE toKeyConditionExpression(filter.value)

----------------------------------------------------------------------------
(***************************************************************************)
(* Items.  An item is a record over the attributes the example schemas     *)
(* use; an attribute the object does not have is Undefined.                *)
(***************************************************************************)
Item(pk, sk, postId, commentId, userId, content, likes) ==
    [pk |-> pk, sk |-> sk, postId |-> postId, commentId |-> commentId,
     userId |-> userId, content |-> content, likes |-> likes]

NoItem == Item(Undefined, Undefined, Undefined, Undefined, Undefined, Undefined, Undefined)

Key(pk, sk) == [pk |-> pk, sk |-> sk]
NoKey == Key(Undefined, Undefined)
KeyOf(item) == Key(item.pk, item.sk)

(***************************************************************************)
(* The schemas of src/examples/repository.test.ts.  z.object() strips the  *)
(* keys it does not declare, .default() fills an undefined field, and      *)
(* .transform() derives pk and sk.  uuid is the value uuid() returns if a  *)
(* default is needed.  The result is [ok, value]; ~ok is a thrown ZodError.*)
(***************************************************************************)
IsString(v) == v.type = "string"
IsNumber(v) == v.type = "number"
\* as OrDefault, with the default taken whatever the input holds
OrDefaultAlways(v, d) == d

OrDefault(v, d) == IF v = Undefined THEN d ELSE v

ParseFailure == [ok |-> FALSE, value |-> NoItem]
ParseSuccess(item) == [ok |-> TRUE, value |-> item]

\* z.object({ pk, sk, userId, content, likes })
BaseSchema(data) ==
    IF /\ IsString(data.pk) /\ IsString(data.sk) /\ IsString(data.userId)
       /\ IsString(data.content) /\ IsNumber(data.likes)
    THEN ParseSuccess(Item(data.pk, data.sk, Undefined, Undefined,
                           data.userId, data.content, data.likes))
    ELSE ParseFailure

\* PostSchema: postId defaults to uuid(); pk = postId, sk = "post"
PostSchema(data, uuid) ==
    LET postId == OrDefault(data.postId, Str(uuid)) IN
    IF /\ IsString(postId) /\ IsString(data.userId)
       /\ IsString(data.content) /\ IsNumber(data.likes)
    THEN ParseSuccess(Item(postId, Str("post"), postId, Undefined,
                           data.userId, data.content, data.likes))
    ELSE ParseFailure

\* CommentSchema: commentId defaults to uuid(); pk = postId, sk = `comment#${commentId}`
CommentSchema(data, uuid) ==
    LET commentId == OrDefault(data.commentId, Str(uuid)) IN
    IF /\ IsString(data.postId) /\ IsString(commentId) /\ IsString(data.userId)
       /\ IsString(data.content) /\ IsNumber(data.likes)
    THEN ParseSuccess(Item(data.postId, Str("comment#" \o commentId.val), data.postId,
                           commentId, data.userId, data.content, data.likes))
    ELSE ParseFailure

Schemas == {"Base", "Post", "Comment"}

\* Repository.parse: this.schema.parse(data)
parse(sch, data, uuid) ==
    CASE sch = "Base"    -> BaseSchema(data)
      [] sch = "Post"    -> PostSchema(data, uuid)
      [] sch = "Comment" -> CommentSchema(data, uuid)

----------------------------------------------------------------------------
(***************************************************************************)
(* The table (DynamoDB, behind DynamoDBDocument): hash key pk and range    *)
(* key sk, both strings (repository.test.ts, createTable).  The strings    *)
(* the model uses are listed here: a scan walks the partitions in the      *)
(* order of PartitionKeys, and within a partition items come in the byte   *)
(* order of their sort keys, which is the order of SortKeys.               *)
(***************************************************************************)
PartitionKeys == <<"post1", "post2", "u1", "u2">>
Ids == {"1", "2", "3", "4", "u1", "u2"}
SortKeys == <<"comment#1", "comment#2", "comment#3", "comment#4",
              "comment#u1", "comment#u2", "post">>
\* what may follow a prefix inside a sort key
Tails == {""} \cup Ids \cup {"#" \o i : i \in Ids}

Index(seq, x) == CHOOSE i \in 1..Len(seq) : seq[i] = x
Min(a, b) == IF a <= b THEN a ELSE b

\* position of a key in the table's iteration order; 0 before every item
Rank(key) ==
    IF key = NoKey THEN 0
    ELSE Index(PartitionKeys, key.pk.val) * (Len(SortKeys) + 1) + Index(SortKeys, key.sk.val)

ValidKey(key) == IsString(key.pk) /\ IsString(key.sk)

\* as DbPut, with the write conditional on the key being free
DbPutIfAbsent(st, item) ==
    IF \E i \in st : KeyOf(i) = KeyOf(item) THEN st ELSE st \cup {item}

\* PutItem: an unconditional replace of the item under the item's key
DbPut(st, item) == {i \in st : KeyOf(i) # KeyOf(item)} \cup {item}

\* GetItem: the item under the key, or undefined
DbGet(st, key) ==
    IF \E i \in st : KeyOf(i) = key THEN CHOOSE i \in st : KeyOf(i) = key ELSE NoItem

(* KeyConditionExpression.  The table reads the condition text back into   *)
(* clauses: an equality on the hash key and at most one condition on the   *)
(* range key, joined by "and", each naming the placeholders it uses.       *)
Comparators == {"=", "<", "<=", ">", ">="}

Clause(attr, op, ph1, ph2) == [attr |-> attr, op |-> op, ph1 |-> ph1, ph2 |-> ph2]

ClauseText(c) ==
    CASE c.op = "between" -> c.attr \o " between " \o c.ph1 \o " and " \o c.ph2
      [] c.op = "begins_with" -> "begins_with(" \o c.attr \o ", " \o c.ph1 \o ")"
      [] OTHER -> c.attr \o " " \o c.op \o " " \o c.ph1

ConditionsOver(phs) ==
    LET hash  == {Clause("pk", "=", p, p) : p \in phs}
        range == {Clause("sk", o, p, p) : o \in Comparators \cup {"begins_with"}, p \in phs}
                 \cup {Clause("sk", "between", p, q) : p \in phs, q \in phs}
    IN  {<<h>> : h \in hash}
        \cup {<<h, r>> : h \in hash, r \in range}
        \cup {<<r, h>> : h \in hash, r \in range}

PlaceholdersOf(cond) ==
    UNION {IF cond[i].op = "between" THEN {cond[i].ph1, cond[i].ph2} ELSE {cond[i].ph1}
           : i \in 1..Len(cond)}

\* the readings of a request's condition that the table accepts: the text
\* parses, every value is a string and every value is used
AcceptedConditions(expression, values) ==
    IF ~IsString(expression) \/ \E b \in values : ~IsString(b.value) THEN {}
    ELSE {cond \in ConditionsOver({b.name : b \in values}) :
            /\ JoinAnd([i \in 1..Len(cond) |-> ClauseText(cond[i])]) = expression.val
            /\ PlaceholdersOf(cond) = {b.name : b \in values}}

ValueOf(values, ph) == (CHOOSE b \in values : b.name = ph).value.val

BeginsWith(s, prefix) == \E t \in Tails : prefix \o t = s
StrLeq(a, b) == Index(SortKeys, a) <= Index(SortKeys, b)

ClauseHolds(c, values, item) ==
    LET a == item[c.attr].val
        v == ValueOf(values, c.ph1)
    IN  CASE c.op = "="  -> a = v
          [] c.op = "begins_with" -> BeginsWith(a, v)
          [] c.op = "between" -> StrLeq(v, a) /\ StrLeq(a, ValueOf(values, c.ph2))
          [] c.op = "<"  -> StrLeq(a, v) /\ a # v
          [] c.op = "<=" -> StrLeq(a, v)
          [] c.op = ">"  -> StrLeq(v, a) /\ a # v
          [] c.op = ">=" -> StrLeq(v, a)

\* A request: Scan has no condition, Query has the compiled one
ScanRequest == [kind |-> "scan", expression |-> Undefined, values |-> {}]
QueryRequest(compiled) ==
    [kind |-> "query", expression |-> compiled.expression, values |-> compiled.values]

RequestAccepted(req) ==
    req.kind = "scan" \/ AcceptedConditions(req.expression, req.values) # {}

Matching(st, req) ==
    IF req.kind = "scan" THEN st
    ELSE LET cond == CHOOSE c \in AcceptedConditions(req.expression, req.values) : TRUE
         IN  {i \in st : \A k \in 1..Len(cond) : ClauseHolds(cond[k], req.values, i)}

RECURSIVE InOrder(_)
InOrder(items) ==
    IF items = {} THEN <<>>
    ELSE LET first == CHOOSE i \in items : \A j \in items : Rank(KeyOf(i)) <= Rank(KeyOf(j))
         IN  <<first>> \o InOrder(items \ {first})

(* One page: the items after ExclusiveStartKey, at most `limit` of them.   *)
(* LastEvaluatedKey is set when the page stopped at the limit, whether or  *)
(* not an item follows (dynamodb-document.test.ts: page sizes 2, 2, 0).    *)
DbPage(st, req, startKey, limit) ==
    IF ~RequestAccepted(req)
    THEN [error |-> "ValidationException", Items |-> <<>>, LastEvaluatedKey |-> NoKey]
    ELSE LET rest  == InOrder({i \in Matching(st, req) : Rank(KeyOf(i)) > Rank(startKey)})
             n     == Min(limit, Len(rest))
         IN  [error |-> "none",
              Items |-> SubSeq(rest, 1, n),
              LastEvaluatedKey |-> IF n = limit THEN KeyOf(rest[n]) ELSE NoKey]

----------------------------------------------------------------------------
(***************************************************************************)
(* Bounds and the inputs the callers draw from.                            *)
(***************************************************************************)
MaxPuts == 2
MaxPageSize == 2

\* Two callers.  The first makes any call; the second only puts, overlapping
\* whatever the first is doing (reads leave the table as it is, so a second
\* reader could not affect the first).
Callers == {1, 2}
Readers == {1}
Uuids == {"u1", "u2"}

User == Str("user1")
Likes == Num("3")

\* items as the example repositories write them (posts and their comments)
PostItem(postId, content) ==
    Item(Str(postId), Str("post"), Str(postId), Undefined, User, Str(content), Likes)
CommentItem(postId, commentId, content) ==
    Item(Str(postId), Str("comment#" \o commentId), Str(postId), Str(commentId),
         User, Str(content), Likes)

\* an item that has lost its content: no schema accepts it
Damaged(item) == [item EXCEPT !.content = Undefined]

\* the table of the tests' batchOfItems: post2 with four comments and post1
\* with two; after these in post1, a comment that is damaged
Batch ==
    {PostItem("post2", "a"), CommentItem("post2", "1", "a"), CommentItem("post2", "2", "a"),
     CommentItem("post2", "3", "a"), CommentItem("post2", "4", "a"),
     CommentItem("post1", "1", "a"), CommentItem("post1", "2", "a"),
     Damaged(CommentItem("post1", "3", "a"))}

Prefills == {{}, Batch}

\* what callers hand to put
Candidates ==
    {Item(Str("post1"), Str("post"), Undefined, Undefined, User, Str("a"), Likes),
     Item(Str("post1"), Str("post"), Undefined, Undefined, User, Str("b"), Likes),
     Item(Undefined, Undefined, Str("post1"), Undefined, User, Str("b"), Likes),
     Item(Undefined, Undefined, Str("post2"), Str("1"), User, Str("b"), Likes),
     \* repository.test.ts:105: sk a number, likes a string, no userId, no content
     Item(Str("post1"), Num("3"), Undefined, Undefined, Undefined, Undefined, Str("oopsie"))}

Entry(name, expr) == [name |-> name, expr |-> expr]

\* what callers hand to query
QueryKeys ==
    {<<Entry("pk", Str("post2"))>>,
     <<Entry("pk", Str("post2")), Entry("sk", Arr(<<Str("begins_with"), Str("comment")>>))>>,
     <<Entry("pk", Str("post1")), Entry("sk", Arr(<<Str("begins_with"), Str("comment")>>))>>,
     <<Entry("pk", Str("post2")),
       Entry("sk", Arr(<<Str("between"), Str("comment#2"), Str("comment#3")>>))>>,
     <<Entry("pk", Str("post2")), Entry("sk", Arr(<<Str("contains"), Str("comment")>>))>>}

\* what callers hand to get
GetKeys ==
    {Key(Str("post2"), Str("comment#2")), Key(Str("post1"), Str("post")),
     Key(Str("u1"), Str("post")), Key(Str("post2"), Str("comment#u1"))}

----------------------------------------------------------------------------
(***************************************************************************)
(* src/lib/repository.ts.  A call is one invocation of put, get, scan or   *)
(* query; it is cut into steps at its awaits and yields.                   *)
(*   pc: idle | awaitWrite | awaitRead | created | awaitPage | suspended   *)
(*       | done | failed | abandoned                                       *)
(***************************************************************************)
IdleCall ==
    [op |-> "none", pc |-> "idle", data |-> NoItem, key |-> NoKey, keys |-> <<>>,
     parsed |-> NoItem, result |-> NoItem, error |-> "none",
     yielded |-> <<>>, pages |-> <<>>, page |-> <<>>, token |-> NoKey,
     stable |-> TRUE, writes |-> 0, reads |-> 0]

Finished == {"done", "failed", "abandoned"}

\* as PutIssue, with the write requested whether or not the candidate parses
PutIssueUnchecked(sch, data, uuid) ==
    LET r == parse(sch, data, uuid) IN
    [IdleCall EXCEPT !.op = "put", !.pc = "awaitWrite", !.data = data,
                     !.parsed = IF r.ok THEN r.value ELSE data, !.writes = 1]

\* put, up to its await: parse, then hand the parsed item to dynamodb.put
PutIssue(sch, data, uuid) ==
    LET r == parse(sch, data, uuid) IN
    IF r.ok
    THEN [IdleCall EXCEPT !.op = "put", !.pc = "awaitWrite", !.data = data,
                          !.parsed = r.value, !.writes = 1]
    ELSE [IdleCall EXCEPT !.op = "put", !.pc = "failed", !.data = data,
                          !.error = "ZodError"]

\* as WrittenItem, with the candidate written instead of the parsed item
WrittenItemRaw(cr) == cr.data

\* the Item put hands to dynamodb.put
WrittenItem(cr) == cr.parsed

\* put, after its await: return parsed; a rejected request throws
PutResume(cr, accepted) ==
    IF accepted THEN [cr EXCEPT !.pc = "done", !.result = cr.parsed]
    ELSE [cr EXCEPT !.pc = "failed", !.error = "ValidationException"]

\* as GetResume, without the test for a missing Item
GetResumeNoCheck(sch, cr, found, uuid) ==
    LET r == parse(sch, found, uuid) IN
    IF r.ok THEN [cr EXCEPT !.pc = "done", !.result = r.value]
            ELSE [cr EXCEPT !.pc = "failed", !.error = "ZodError"]

\* get, after its await
GetResume(sch, cr, found, uuid) ==
    IF found = NoItem
    THEN [cr EXCEPT !.pc = "failed", !.error = "NotFoundError"]
    ELSE LET r == parse(sch, found, uuid) IN
         IF r.ok THEN [cr EXCEPT !.pc = "done", !.result = r.value]
                 ELSE [cr EXCEPT !.pc = "failed", !.error = "ZodError"]

\* the request scan and query hand to their paginator
RequestOf(cr) ==
    IF cr.op = "scan" THEN ScanRequest ELSE QueryRequest(toKeyConditionExpression(cr.keys))

\* paginateScan / paginateQuery asking for a page
FetchPage(cr) == [cr EXCEPT !.pc = "awaitPage", !.reads = @ + 1]

\* as Loop, yielding the item as the table returned it
LoopUnparsed(sch, cr, uuid) ==
    IF cr.page # <<>>
    THEN [cr EXCEPT !.pc = "suspended", !.yielded = Append(@, Head(cr.page)),
                    !.page = Tail(@)]
    ELSE IF cr.token # NoKey THEN FetchPage(cr)
    ELSE [cr EXCEPT !.pc = "done"]

\* as Loop, with a single request instead of a paginator
LoopOnePage(sch, cr, uuid) ==
    IF cr.page # <<>>
    THEN LET r == parse(sch, Head(cr.page), uuid) IN
         IF r.ok
         THEN [cr EXCEPT !.pc = "suspended", !.yielded = Append(@, r.value),
                         !.page = Tail(@)]
         ELSE [cr EXCEPT !.pc = "failed", !.error = "ZodError", !.page = <<>>]
    ELSE [cr EXCEPT !.pc = "done"]

\* as Loop, with an item the schema rejects skipped instead of thrown
RECURSIVE LoopSkipInvalid(_, _, _)
LoopSkipInvalid(sch, cr, uuid) ==
    IF cr.page # <<>>
    THEN LET r == parse(sch, Head(cr.page), uuid) IN
         IF r.ok
         THEN [cr EXCEPT !.pc = "suspended", !.yielded = Append(@, r.value),
                         !.page = Tail(@)]
         ELSE LoopSkipInvalid(sch, [cr EXCEPT !.page = Tail(@)], uuid)
    ELSE IF cr.token # NoKey THEN FetchPage(cr)
    ELSE [cr EXCEPT !.pc = "done"]

\* as Loop, with the next page asked for while the last item of the page is
\* still to be yielded
LoopFetchAhead(sch, cr, uuid) ==
    IF Len(cr.page) = 1 /\ cr.token # NoKey THEN FetchPage(cr)
    ELSE IF cr.page # <<>>
    THEN LET r == parse(sch, Head(cr.page), uuid) IN
         IF r.ok
         THEN [cr EXCEPT !.pc = "suspended", !.yielded = Append(@, r.value),
                         !.page = Tail(@)]
         ELSE [cr EXCEPT !.pc = "failed", !.error = "ZodError", !.page = <<>>]
    ELSE IF cr.token # NoKey THEN FetchPage(cr)
    ELSE [cr EXCEPT !.pc = "done"]

\* the loops of scan and query, from the head of the inner loop to the next
\* yield, page request, return or throw
Loop(sch, cr, uuid) ==
    IF cr.page # <<>>
    THEN LET r == parse(sch, Head(cr.page), uuid) IN
         IF r.ok
         THEN [cr EXCEPT !.pc = "suspended", !.yielded = Append(@, r.value),
                         !.page = Tail(@)]
         ELSE [cr EXCEPT !.pc = "failed", !.error = "ZodError", !.page = <<>>]
    ELSE IF cr.token # NoKey THEN FetchPage(cr)
    ELSE [cr EXCEPT !.pc = "done"]

\* the paginator receiving a page
PageArrives(sch, cr, resp, uuid) ==
    IF resp.error # "none"
    THEN [cr EXCEPT !.pc = "failed", !.error = resp.error]
    ELSE Loop(sch, [cr EXCEPT !.pages = Append(@, Len(resp.Items)),
                              !.page = resp.Items,
                              !.token = resp.LastEvaluatedKey], uuid)

Init ==
    /\ exprIn = <<>>
    /\ exprOut = [fn |-> "none", expression |-> Undefined, values |-> {}]
    /\ schema \in Schemas
    /\ pageSize \in 1..MaxPageSize
    /\ store \in Prefills
    /\ call = [c \in Callers |-> IdleCall]
    /\ lastPut = {}
    /\ putsStarted = 0

\* a caller makes a call once its previous one has finished
Free(c) == call[c].pc \in {"idle"} \cup Finished

PutCall(c) ==
    /\ Free(c)
    /\ putsStarted < MaxPuts
    /\ putsStarted' = putsStarted + 1
    /\ \E data \in Candidates \cup {e.returned : e \in lastPut}, uuid \in Uuids :
          call' = [call EXCEPT ![c] = PutIssue(schema, data, uuid)]
    /\ UNCHANGED <<exprIn, exprOut, schema, pageSize, store, lastPut>>

\* the table answers the write (it refuses an item without its key attributes)
\* and the put resumes
StoreWrite(c) ==
    LET item     == WrittenItem(call[c])
        accepted == ValidKey(KeyOf(item))
    IN  /\ call[c].pc = "awaitWrite"
        /\ store' = IF accepted THEN DbPut(store, item) ELSE store
        /\ lastPut' = IF accepted
                      THEN {e \in lastPut : e.key # KeyOf(item)}
                           \cup {[key |-> KeyOf(item), returned |-> call[c].parsed]}
                      ELSE lastPut
        /\ call' = [d \in Callers |->
                      IF d = c THEN PutResume(call[c], accepted)
                      ELSE IF call[d].op \in {"scan", "query"} /\ store' # store
                           THEN [call[d] EXCEPT !.stable = FALSE]
                           ELSE call[d]]
        /\ UNCHANGED <<exprIn, exprOut, schema, pageSize, putsStarted>>

GetCall(c) ==
    /\ c \in Readers
    /\ Free(c)
    /\ \E key \in GetKeys \cup {e.key : e \in lastPut} :
          call' = [call EXCEPT ![c] =
                     [IdleCall EXCEPT !.op = "get", !.pc = "awaitRead", !.key = key,
                                      !.reads = 1]]
    /\ UNCHANGED <<exprIn, exprOut, schema, pageSize, store, lastPut, putsStarted>>

GetReturn(c) ==
    /\ call[c].pc = "awaitRead"
    /\ \E uuid \in Uuids :
          call' = [call EXCEPT ![c] =
                     GetResume(schema, call[c], DbGet(store, call[c].key), uuid)]
    /\ UNCHANGED <<exprIn, exprOut, schema, pageSize, store, lastPut, putsStarted>>

\* calling an async generator function runs none of its body
ScanCall(c) ==
    /\ c \in Readers
    /\ Free(c)
    /\ call' = [call EXCEPT ![c] = [IdleCall EXCEPT !.op = "scan", !.pc = "created"]]
    /\ UNCHANGED <<exprIn, exprOut, schema, pageSize, store, lastPut, putsStarted>>

\* as QueryCall, with the first page requested by the call itself
QueryCallEager(c) ==
    /\ c \in Readers
    /\ Free(c)
    /\ \E keys \in QueryKeys :
          call' = [call EXCEPT ![c] =
                     FetchPage([IdleCall EXCEPT !.op = "query", !.keys = keys])]
    /\ UNCHANGED <<exprIn, exprOut, schema, pageSize, store, lastPut, putsStarted>>

QueryCall(c) ==
    /\ c \in Readers
    /\ Free(c)
    /\ \E keys \in QueryKeys :
          call' = [call EXCEPT ![c] =
                     [IdleCall EXCEPT !.op = "query", !.pc = "created", !.keys = keys]]
    /\ UNCHANGED <<exprIn, exprOut, schema, pageSize, store, lastPut, putsStarted>>

\* the consumer asks for the next item
Advance(c) ==
    /\ call[c].pc \in {"created", "suspended"}
    /\ \E uuid \in Uuids :
          call' = [call EXCEPT ![c] =
                     IF call[c].pc = "created" THEN FetchPage(call[c])
                     ELSE Loop(schema, call[c], uuid)]
    /\ UNCHANGED <<exprIn, exprOut, schema, pageSize, store, lastPut, putsStarted>>

\* the table answers a page request
PageReturn(c) ==
    /\ call[c].pc = "awaitPage"
    /\ \E uuid \in Uuids :
          call' = [call EXCEPT ![c] =
                     PageArrives(schema, call[c],
                                 DbPage(store, RequestOf(call[c]), call[c].token, pageSize),
                                 uuid)]
    /\ UNCHANGED <<exprIn, exprOut, schema, pageSize, store, lastPut, putsStarted>>

\* the consumer leaves its for-await loop early
Abandon(c) ==
    /\ call[c].pc \in {"created", "suspended"}
    /\ call' = [call EXCEPT ![c] = [call[c] EXCEPT !.pc = "abandoned", !.page = <<>>]]
    /\ UNCHANGED <<exprIn, exprOut, schema, pageSize, store, lastPut, putsStarted>>

Next ==
    \E c \in Callers :
        \/ PutCall(c)
        \/ StoreWrite(c)
        \/ GetCall(c)
        \/ GetReturn(c)
        \/ ScanCall(c)
        \/ QueryCall(c)
        \/ Advance(c)
        \/ PageReturn(c)
        \/ Abandon(c)

Spec == Init /\ [][Next]_vars

----------------------------------------------------------------------------
(***************************************************************************)
(* The condition compiler on its own: a mapping is drawn, then compiled.   *)
(***************************************************************************)
MaxEntries == 2

AttrNames == {"pk", "sk", "skmin"}
Operators == {"=", "<", "<=", ">", ">=", "begins_with"}

Expressions ==
    {Str("post2"), Num("3"), Bool("true")}
    \cup {Arr(<<Str(o), Str("comment")>>) : o \in Operators \cup {"contains"}}
    \cup {Arr(<<Num("3"), Str("comment")>>)}
    \cup {Arr(<<Str("between"), Str("a"), v>>) : v \in {Str("b"), Num("3")}}

Entries == {Entry(n, e) : n \in AttrNames, e \in Expressions}

\* Object.entries of the mappings with at most MaxEntries keys
Mappings ==
    UNION {{m \in [1..n -> Entries] : \A i, j \in 1..n : i # j => m[i].name # m[j].name}
           : n \in 0..MaxEntries}

NotCompiled == [fn |-> "none", expression |-> Undefined, values |-> {}]
Compiled(fn, r) == [fn |-> fn, expression |-> r.expression, values |-> r.values]

InitExpr ==
    /\ exprIn \in Mappings
    /\ exprOut = NotCompiled
    /\ schema = "Base"
    /\ pageSize = 1
    /\ store = {}
    /\ call = [c \in Callers |-> IdleCall]
    /\ lastPut = {}
    /\ putsStarted = 0

CompileKey ==
    /\ exprOut.fn = "none"
    /\ exprOut' = Compiled("key", toKeyConditionExpression(exprIn))
    /\ UNCHANGED <<exprIn, schema, pageSize, store, call, lastPut, putsStarted>>

\* toFilterConditionExpression(exprIn), or toFilterConditionExpression()
CompileFilter ==
    /\ exprOut.fn = "none"
    /\ \E filter \in {Given(exprIn), Absent} :
          exprOut' = Compiled(IF filter.present THEN "filter" ELSE "filterAbsent",
                              toFilterConditionExpression(filter))
    /\ UNCHANGED <<exprIn, schema, pageSize, store, call, lastPut, putsStarted>>

NextExpr == CompileKey \/ CompileFilter

SpecExpr == InitExpr /\ [][NextExpr]_vars

----------------------------------------------------------------------------
(***************************************************************************)
(* Properties of the condition compiler (checked under SpecExpr).          *)
(***************************************************************************)
IsScalar(e) == e.type \in {"string", "number", "boolean"}
IsTagged(e, tag, n) == e.type = "array" /\ Len(e.elems) = n /\ e.elems[1] = Str(tag)

\* C9: a mapping with a single entry compiles to the clause and the bindings of
\* that entry's variant: a bare scalar to "{name} = :{name}" with :{name} bound
\* to the value; begins_with to "begins_with({name}, :{name})" with :{name}
\* bound to the prefix; between to "{name} between :{name}min and :{name}max"
\* with :{name}min bound to min, :{name}max bound to max, and nothing else.
C9_SingleEntry ==
    (exprOut.fn = "key" /\ Len(exprIn) = 1) =>
        LET n == exprIn[1].name
            e == exprIn[1].expr
        IN  /\ IsScalar(e) =>
                /\ exprOut.expression = Str(n \o " = :" \o n)
                /\ exprOut.values = {Bind(":" \o n, e)}
            /\ IsTagged(e, "begins_with", 2) =>
                /\ exprOut.expression = Str("begins_with(" \o n \o ", :" \o n \o ")")
                /\ exprOut.values = {Bind(":" \o n, e.elems[2])}
            /\ IsTagged(e, "between", 3) =>
                /\ exprOut.expression =
                       Str(n \o " between :" \o n \o "min and :" \o n \o "max")
                /\ exprOut.values = {Bind(":" \o n \o "min", e.elems[2]),
                                     Bind(":" \o n \o "max", e.elems[3])}

\* a between whose two ends differ has been compiled on its own
C9_Witness ==
    /\ exprOut.fn = "key"
    /\ Len(exprIn) = 1
    /\ IsTagged(exprIn[1].expr, "between", 3)
    /\ exprIn[1].expr.elems[2] # exprIn[1].expr.elems[3]
    /\ Cardinality(exprOut.values) = 2

\* the clause and the bindings an entry compiles to on its own
ClauseAlone(entry) == toKeyConditionExpression(<<entry>>).expression.val
BindingsAlone(entry) == toKeyConditionExpression(<<entry>>).values

RECURSIVE JoinLeft(_)
JoinLeft(clauses) ==
    IF Len(clauses) = 0 THEN ""
    ELSE IF Len(clauses) = 1 THEN clauses[1]
    ELSE JoinLeft(SubSeq(clauses, 1, Len(clauses) - 1)) \o " and " \o clauses[Len(clauses)]

PostCommentsKeys ==
    <<Entry("pk", Str("post2")), Entry("sk", Arr(<<Str("begins_with"), Str("comment")>>))>>

\* C10: for a mapping with several entries the condition is the entries' clauses,
\* in the order of the mapping, joined by " and ", and the bindings are the merge
\* of the entries' bindings (one binding per name, that of the last entry that
\* binds the name); { pk: "post2", sk: ["begins_with", "comment"] } compiles to
\* "pk = :pk and begins_with(sk, :sk)" with { ":pk": "post2", ":sk": "comment" }.
C10_Conjunction ==
    exprOut.fn = "key" =>
        LET n == Len(exprIn) IN
        /\ exprOut.expression = Str(JoinLeft([i \in 1..n |-> ClauseAlone(exprIn[i])]))
        /\ \A b \in exprOut.values :
              \E i \in 1..n :
                 /\ b \in BindingsAlone(exprIn[i])
                 /\ \A j \in (i + 1)..n : \A d \in BindingsAlone(exprIn[j]) : d.name # b.name
        /\ \A i \in 1..n : \A d \in BindingsAlone(exprIn[i]) :
              \E b \in exprOut.values : b.name = d.name
        /\ \A b, d \in exprOut.values : b.name = d.name => b = d
        /\ exprIn = PostCommentsKeys =>
              /\ exprOut.expression = Str("pk = :pk and begins_with(sk, :sk)")
              /\ exprOut.values = {Bind(":pk", Str("post2")), Bind(":sk", Str("comment"))}

\* the comments-of-a-post mapping has been compiled
C10_Witness == exprOut.fn = "key" /\ exprIn = PostCommentsKeys

\* what compiling the empty mapping returns
EmptyCompiled == toKeyConditionExpression(<<>>)

\* C11 (as stated): toFilterConditionExpression called without a mapping returns
\* what compiling the empty mapping returns: the empty condition string and an
\* empty binding mapping.
C11_Original ==
    exprOut.fn = "filterAbsent" =>
        /\ exprOut.expression = Str("")
        /\ exprOut.values = {}
        /\ exprOut.expression = EmptyCompiled.expression
        /\ exprOut.values = EmptyCompiled.values

\* C11 (amended): toFilterConditionExpression called without a mapping returns
\* no condition at all (undefined, not the empty string) together with an empty
\* binding mapping; compiling the empty mapping returns the empty string and an
\* empty binding mapping, so the two results agree in their bindings only.
C11_NoCondition ==
    /\ exprOut.fn = "filterAbsent" =>
          /\ exprOut.expression = Undefined
          /\ exprOut.values = {}
          /\ exprOut.values = EmptyCompiled.values
          /\ exprOut.expression # EmptyCompiled.expression
    /\ (exprOut.fn \in {"key", "filter"} /\ exprIn = <<>>) =>
          /\ exprOut.expression = Str("")
          /\ exprOut.values = {}

\* the filter compiler was called without a mapping while one was at hand
C11_Witness == exprOut.fn = "filterAbsent" /\ exprIn # <<>> /\ exprOut.values = {}

\* C12 (as stated): { pk: "post2", sk: ["begins_with", "comment"] } compiles to
\* the condition "pk = :pk and sk = :sk".
C12_Original ==
    (exprOut.fn = "key" /\ exprIn = PostCommentsKeys)
        => exprOut.expression = Str("pk = :pk and sk = :sk")

\* C12 (amended): { pk: "post2", sk: ["begins_with", "comment"] } compiles to the
\* condition "pk = :pk and begins_with(sk, :sk)": the two-element form with the
\* tag begins_with gets the functional form, never the comparison form, by the
\* key compiler and by the filter compiler alike.
C12_BeginsWithForm ==
    (exprOut.fn \in {"key", "filter"} /\ Len(exprIn) = 2
     /\ IsScalar(exprIn[1].expr) /\ IsTagged(exprIn[2].expr, "begins_with", 2))
        => LET a == exprIn[1].name
               b == exprIn[2].name
           IN  /\ exprOut.expression =
                      Str(a \o " = :" \o a \o " and begins_with(" \o b \o ", :" \o b \o ")")
               /\ exprOut.expression # Str(a \o " = :" \o a \o " and " \o b \o " = :" \o b)
               /\ exprIn = PostCommentsKeys =>
                      exprOut.expression = Str("pk = :pk and begins_with(sk, :sk)")

\* the filter compiler has compiled the comments-of-a-post mapping
C12_Witness ==
    /\ exprOut.fn = "filter" /\ exprIn = PostCommentsKeys
    /\ exprOut.expression = Str("pk = :pk and begins_with(sk, :sk)")

\* a two-element array whose first element is none of the operator tags
IsUnknownTag(e) ==
    /\ e.type = "array" /\ Len(e.elems) = 2
    /\ e.elems[1] \notin {Str(o) : o \in Operators \cup {"between"}}

\* C16 (as stated): a two-element array whose first element is not an operator
\* tag compiles to the equality clause "{name} = :{name}" with :{name} bound to
\* the array itself.
C16_Original ==
    (exprOut.fn = "key" /\ Len(exprIn) = 1 /\ IsUnknownTag(exprIn[1].expr))
        => LET n == exprIn[1].name IN
           /\ exprOut.expression = Str(n \o " = :" \o n)
           /\ exprOut.values = {Bind(":" \o n, exprIn[1].expr)}

\* C16 (amended): a two-element array whose first element is not an operator
\* tag falls through to the default branch and compiles to the clause
\* "{name} {first element} :{name}", with the first element in the operator's
\* place, and :{name} bound to the array's second element.
C16_UnknownTag ==
    (exprOut.fn = "key" /\ Len(exprIn) = 1 /\ IsUnknownTag(exprIn[1].expr))
        => LET n == exprIn[1].name
               e == exprIn[1].expr
           IN  /\ exprOut.expression = Str(n \o " " \o e.elems[1].val \o " :" \o n)
               /\ exprOut.expression # Str(n \o " = :" \o n)
               /\ exprOut.values = {Bind(":" \o n, e.elems[2])}

\* ["contains", "comment"] has been compiled on its own
C16_Witness ==
    /\ exprOut.fn = "key" /\ Len(exprIn) = 1
    /\ exprIn[1].expr = Arr(<<Str("contains"), Str("comment")>>)
    /\ exprOut.expression = Str(exprIn[1].name \o " contains :" \o exprIn[1].name)

\* the number of bindings an entry asks for: two for a between, else one
BindingsAsked(entry) == IF OperatorOf(entry.expr) = Str("between") THEN 2 ELSE 1

RECURSIVE SumAsked(_)
SumAsked(entries) ==
    IF entries = <<>> THEN 0 ELSE BindingsAsked(Head(entries)) + SumAsked(Tail(entries))

\* C17: for a mapping with pairwise distinct attribute names, every placeholder
\* of an entry's clause is bound in the result to the value that entry supplies,
\* the parameter names of different entries do not collide, and the number of
\* bindings is one per single-value entry plus two per between entry.
C17_NoCollision ==
    exprOut.fn = "key" =>
        /\ \A i \in 1..Len(exprIn) : BindingsAlone(exprIn[i]) \subseteq exprOut.values
        /\ \A i, j \in 1..Len(exprIn) :
              i # j => \A b \in BindingsAlone(exprIn[i]), d \in BindingsAlone(exprIn[j]) :
                          b.name # d.name
        /\ Cardinality(exprOut.values) = SumAsked(exprIn)

----------------------------------------------------------------------------
(***************************************************************************)
(* Properties of the repository (checked under Spec).                      *)
(***************************************************************************)
\* the step in which a get's read, or a put's write, is answered
GetAnswered(c) == call[c].pc = "awaitRead" /\ call'[c].pc # "awaitRead"
PutAnswered(c) == call[c].pc = "awaitWrite" /\ call'[c].pc # "awaitWrite"

\* the schema accepts the data
Accepts(sch, data) == \E u \in Uuids : parse(sch, data, u).ok

\* the item has the shape the schema's output type declares
SatisfiesSchema(sch, i) ==
    /\ IsString(i.pk) /\ IsString(i.sk) /\ IsString(i.userId)
    /\ IsString(i.content) /\ IsNumber(i.likes)
    /\ sch = "Base" => i.postId = Undefined /\ i.commentId = Undefined
    /\ sch = "Post" => /\ IsString(i.postId) /\ i.commentId = Undefined
                       /\ i.pk = i.postId /\ i.sk = Str("post")
    /\ sch = "Comment" => /\ IsString(i.postId) /\ IsString(i.commentId)
                          /\ i.pk = i.postId /\ i.sk = Str("comment#" \o i.commentId.val)

\* C1: a get on the key of an item that a put stored, with no later write to
\* that key, returns the item that put returned (defaults included).
C1_RoundTrip ==
    [][\A c \in Callers : \A e \in lastPut :
          (GetAnswered(c) /\ e.key = call[c].key)
              => (call'[c].pc = "done" /\ call'[c].result = e.returned)]_vars

\* a get has returned what a put with a generated postId returned
C1_Witness ==
    \E c \in Callers : \E e \in lastPut :
        /\ call[c].op = "get" /\ call[c].pc = "done"
        /\ e.key = call[c].key /\ e.returned = call[c].result
        /\ schema = "Post" /\ call[c].result.postId = Str("u1")

\* C2: a put whose candidate the schema rejects fails with the validation error
\* and requests no write; the step that makes the call leaves the table as it was.
C2_InvalidPutWritesNothing ==
    [][\A c \in Callers :
          (call'[c].op = "put" /\ ~Accepts(schema, call'[c].data))
              => /\ call'[c].pc = "failed"
                 /\ call'[c].error = "ZodError"
                 /\ call'[c].writes = 0
                 /\ call'[c] # call[c] => store' = store]_vars

\* a put has failed validation over a table that holds items
C2_Witness ==
    \E c \in Callers :
        /\ call[c].op = "put" /\ call[c].pc = "failed" /\ call[c].error = "ZodError"
        /\ store # {}

\* C3: a get on a key under which the table holds nothing fails with
\* NotFoundError: it returns no value and reports no validation error.
C3_GetMissing ==
    [][\A c \in Callers :
          (GetAnswered(c) /\ \A i \in store : KeyOf(i) # call[c].key)
              => /\ call'[c].pc = "failed"
                 /\ call'[c].error = "NotFoundError"
                 /\ call'[c].result = NoItem]_vars

\* a get has failed with NotFoundError
C3_Witness ==
    \E c \in Callers :
        call[c].op = "get" /\ call[c].pc = "failed" /\ call[c].error = "NotFoundError"

\* C4: every item the repository wrote, or is about to write, to the table, and
\* every item it returned from get or yielded from query or scan, is an output
\* of its schema, whatever else the table holds.
C4_OnlyValidated ==
    /\ \A i \in store : (\E e \in lastPut : e.key = KeyOf(i)) => SatisfiesSchema(schema, i)
    /\ \A c \in Callers :
          /\ call[c].pc = "awaitWrite" => SatisfiesSchema(schema, WrittenItem(call[c]))
          /\ call[c].result # NoItem => SatisfiesSchema(schema, call[c].result)
          /\ \A k \in 1..Len(call[c].yielded) : SatisfiesSchema(schema, call[c].yielded[k])

\* items were yielded from a table that holds an item the schema rejects, after
\* the repository had written to it
C4_Witness ==
    /\ \E i \in store : ~Accepts(schema, i)
    /\ lastPut # {}
    /\ \E c \in Callers : call[c].op \in {"scan", "query"} /\ Len(call[c].yielded) >= 2

IsPrefixQuery(keys) ==
    /\ Len(keys) = 2
    /\ keys[1].name = "pk" /\ IsString(keys[1].expr)
    /\ keys[2].name = "sk" /\ IsTagged(keys[2].expr, "begins_with", 2)

\* the stored items in the partition whose sort key starts with the prefix
PrefixMatches(st, keys) ==
    {i \in st : /\ i.pk = keys[1].expr
                /\ \E t \in Tails : i.sk.val = keys[2].expr.elems[2].val \o t}

\* C5: a query { pk: value, sk: ["begins_with", prefix] } drained to its end over
\* an unchanging table whose matching items the schema accepts ends normally and
\* has yielded the (validated) stored items with that partition key and a sort
\* key starting with the prefix, each once, and nothing else.
C5_PrefixQuery ==
    \A c \in Callers :
        LET cr == call[c]
            M  == PrefixMatches(store, cr.keys)
            n  == Len(cr.yielded)
        IN  (/\ cr.op = "query" /\ cr.pc \in {"done", "failed"} /\ cr.stable
             /\ IsPrefixQuery(cr.keys)
             /\ \A i \in M : Accepts(schema, i))
            => /\ cr.pc = "done"
               /\ n = Cardinality(M)
               /\ \E f \in [1..n -> M] :
                     /\ \A j, k \in 1..n : j # k => f[j] # f[k]
                     /\ \A k \in 1..n : \E u \in Uuids :
                           parse(schema, f[k], u) = ParseSuccess(cr.yielded[k])

\* the comments of post2 were queried: four yielded, the post item left out
C5_Witness ==
    \E c \in Callers :
        /\ call[c].op = "query" /\ call[c].pc = "done" /\ call[c].stable
        /\ call[c].keys = PostCommentsKeys
        /\ Len(call[c].yielded) = 4
        /\ PostItem("post2", "a") \in store

CeilDiv(n, p) == (n + p - 1) \div p

\* C6: a query drained to its end over an unchanging table with N matching items
\* and page size P has yielded N items; if its last page was empty it fetched
\* ceil(N/P)+1 pages; if P divides N the pages are N/P full ones and one empty.
C6_Pagination ==
    \A c \in Callers :
        LET cr == call[c]
            np == Len(cr.pages)
        IN  (cr.op = "query" /\ cr.pc = "done" /\ cr.stable) =>
                LET N == Cardinality(Matching(store, RequestOf(cr))) IN
                /\ Len(cr.yielded) = N
                /\ np >= 1
                /\ cr.reads = np
                /\ cr.pages[np] = 0 => np = CeilDiv(N, pageSize) + 1
                /\ N % pageSize = 0 =>
                      /\ np = (N \div pageSize) + 1
                      /\ cr.pages[np] = 0
                      /\ \A k \in 1..(np - 1) : cr.pages[k] = pageSize

\* four matching items at page size two: pages of 2, 2 and 0 items
C6_Witness ==
    \E c \in Callers :
        /\ call[c].op = "query" /\ call[c].pc = "done" /\ call[c].stable
        /\ pageSize = 2
        /\ call[c].pages = <<2, 2, 0>>
        /\ Len(call[c].yielded) = 4

\* what a get on the key returns, with the table holding st
GetOn(st, key, u) ==
    GetResume(schema, [IdleCall EXCEPT !.op = "get", !.pc = "awaitRead", !.key = key],
              DbGet(st, key), u)

\* C7: putting again an item that an earlier put returned and that the table
\* still holds leaves the table as it was and returns the same item; a get on its
\* key returns the same after as before.
C7_PutIdempotent ==
    [][\A c \in Callers :
          (/\ PutAnswered(c)
           /\ call[c].data \in store
           /\ \E e \in lastPut : e.returned = call[c].data)
              => /\ store' = store
                 /\ call'[c].pc = "done"
                 /\ call'[c].result = call[c].data
                 /\ \A u \in Uuids :
                       /\ GetOn(store', KeyOf(call[c].data), u).result = call[c].data
                       /\ GetOn(store', KeyOf(call[c].data), u)
                            = GetOn(store, KeyOf(call[c].data), u)]_vars

\* a post with a generated id was put a second time
C7_Witness ==
    \E c \in Callers :
        /\ call[c].op = "put" /\ call[c].pc = "done"
        /\ schema = "Post" /\ call[c].data.postId = Str("u1")
        /\ call[c].result = call[c].data
        /\ call[c].data \in store

\* C8: put is an unconditional upsert, last writer wins: under every key the
\* repository has written, the table holds the item of the put whose write was
\* applied last; a put reads nothing, requests exactly one write, and is never
\* refused when its candidate is valid.
C8_LastWriterWins ==
    /\ \A e \in lastPut :
          /\ \E i \in store : KeyOf(i) = e.key
          /\ \A i \in store : KeyOf(i) = e.key => i = e.returned
    /\ \A c \in Callers :
          call[c].op = "put" =>
              /\ call[c].reads = 0
              /\ call[c].pc = "done" => call[c].writes = 1
              /\ Accepts(schema, call[c].data) => call[c].pc \in {"awaitWrite", "done"}

\* two puts of different items under one key have both been applied
C8_Witness ==
    \E c, d \in Callers :
        /\ c # d
        /\ call[c].op = "put" /\ call[c].pc = "done"
        /\ call[d].op = "put" /\ call[d].pc = "done"
        /\ KeyOf(call[c].result) = KeyOf(call[d].result)
        /\ call[c].result # call[d].result
        /\ call[d].result \in store


IsSequence(cr) == cr.op \in {"scan", "query"}

\* the items a sequence's request matches, in the order the table returns them
Matched(cr) == InOrder(Matching(store, RequestOf(cr)))

\* C13: when an item read by a query or scan fails validation the sequence ends
\* at once with the validation error: the items before it have been yielded, in
\* the table's order, the failing item and the items after it are not, no page
\* after the failing item's page is fetched and none of the page is kept.
C13_AbortOnInvalid ==
    \A c \in Callers :
        LET cr == call[c]
            k  == Len(cr.yielded) + 1
        IN  /\ (IsSequence(cr) /\ cr.pc = "failed" /\ cr.error = "ZodError") =>
                  /\ cr.page = <<>>
                  /\ cr.reads = Len(cr.pages)
                  /\ cr.reads = CeilDiv(k, pageSize)
                  /\ cr.stable =>
                        /\ Len(Matched(cr)) >= k
                        /\ ~Accepts(schema, Matched(cr)[k])
                        /\ \A j \in 1..(k - 1) : \E u \in Uuids :
                              parse(schema, Matched(cr)[j], u) = ParseSuccess(cr.yielded[j])
            /\ (/\ IsSequence(cr) /\ cr.pc \in {"done", "failed"} /\ cr.stable
                 /\ RequestAccepted(RequestOf(cr))
                 /\ \E i \in Matching(store, RequestOf(cr)) : ~Accepts(schema, i))
                  => cr.pc = "failed" /\ cr.error = "ZodError"

\* a scan failed on the first item of its second page: the two items before it
\* were yielded, the item after it in the page and the later pages were not
C13_Witness ==
    \E c \in Callers :
        /\ call[c].op = "scan" /\ call[c].pc = "failed" /\ call[c].error = "ZodError"
        /\ call[c].stable
        /\ pageSize = 2 /\ call[c].pages = <<2, 2>> /\ Len(call[c].yielded) = 2
        /\ Len(Matched(call[c])) > 4

RECURSIVE Sum(_)
Sum(ns) == IF ns = <<>> THEN 0 ELSE Head(ns) + Sum(Tail(ns))

\* C14: within one query or scan at most one page request is in flight, a page
\* is requested only once every item of the pages before it has been yielded,
\* and the sequence holds no more than the unyielded rest of one page.
C14_Sequential ==
    \A c \in Callers :
        LET cr == call[c] IN
        IsSequence(cr) =>
            /\ cr.reads - Len(cr.pages) \in {0, 1}
            /\ cr.pc = "awaitPage" =>
                  /\ cr.reads = Len(cr.pages) + 1
                  /\ cr.page = <<>>
                  /\ Len(cr.yielded) = Sum(cr.pages)
            /\ cr.pc \in {"created", "suspended", "done", "abandoned"} =>
                  cr.reads = Len(cr.pages)
            /\ cr.pc \in {"suspended", "done"} =>
                  Len(cr.yielded) + Len(cr.page) = Sum(cr.pages)
            /\ Len(cr.page) <= pageSize
            /\ cr.pages # <<>> => Len(cr.page) <= cr.pages[Len(cr.pages)]

\* the second page has been requested, after both items of the first were yielded
C14_Witness ==
    \E c \in Callers :
        /\ IsSequence(call[c]) /\ call[c].pc = "awaitPage"
        /\ pageSize = 2 /\ call[c].pages = <<2>> /\ call[c].reads = 2
        /\ Len(call[c].yielded) = 2

\* the step changes the caller's call (the note of a changed table aside)
CallChanges(c) == [call'[c] EXCEPT !.stable = call[c].stable] # call[c]

\* C15: a query or scan requests pages only while its consumer is advancing it:
\* the call itself requests none, a sequence that has yielded n items has
\* requested the pages those n items came in and no more, and once abandoned a
\* sequence requests no page and does nothing else.
C15_OnDemand ==
    [][\A c \in Callers :
          /\ (Free(c) /\ CallChanges(c) /\ IsSequence(call'[c]))
                => call'[c].pc = "created" /\ call'[c].reads = 0
          /\ (IsSequence(call[c]) /\ call[c].pc = "abandoned" /\ CallChanges(c))
                => /\ call'[c].pc \in {"created", "awaitRead", "awaitWrite", "failed"}
                   /\ call'[c].yielded = <<>> /\ call'[c].pages = <<>>
          /\ (IsSequence(call[c]) /\ ~Free(c) /\ call'[c].reads # call[c].reads)
                => /\ call[c].pc \in {"created", "suspended"}
                   /\ call'[c].pc = "awaitPage"
                   /\ call'[c].reads = call[c].reads + 1
          /\ (IsSequence(call'[c]) /\ call'[c].pc \in {"suspended", "abandoned"})
                => call'[c].reads = CeilDiv(Len(call'[c].yielded), pageSize)]_vars

\* a query was abandoned after the two items of its first page, with pages left
C15_Witness ==
    \E c \in Callers :
        /\ call[c].op = "query" /\ call[c].pc = "abandoned"
        /\ pageSize = 2 /\ Len(call[c].yielded) = 2 /\ call[c].reads = 1
        /\ call[c].token # NoKey

============================================================================
